---------------------------- MODULE Spec2Model ----------------------------
(***************************************************************************)
(* Hybrid (lexical TF-IDF + semantic embedding) retrieval with Rocchio     *)
(* relevance feedback over a small document collection.                    *)
(*                                                                         *)
(* Numbers.  The program computes in float64.  Here every real quantity is *)
(* a fixed-point integer: weights, vector components and cosine scores are *)
(* in units of 1/Unit, the Rocchio coefficients in tenths, and             *)
(* lambda_weight is lam/LamDen for lam \in 0..LamDen.  A fused score is    *)
(* kept in units of 1/(Unit*LamDen), so that lambda*sem + (1-lambda)*tf is *)
(* computed without rounding.                                              *)
(*                                                                         *)
(* Text.  A text is a sequence of words.  A document id is a typed cell:   *)
(* the corpus loader yields strings, a CSV read infers the column type.    *)
(***************************************************************************)
EXTENDS Integers, Sequences, FiniteSets, TLC

\* Let(v, LAMBDA name : body) is body with name bound to the value v
Let(v, F(_)) == CHOOSE y \in {F(w) : w \in {v}} : TRUE

\* ------------------------------------------------------------------ bounds
MaxTopk == 3        \* topk ranges over 1..MaxTopk
LamDen == 2         \* lambda_weight ranges over {0/LamDen, ..., LamDen/LamDen}

\* fixed-point unit of weights and cosine scores
Unit == 100

\* --------------------------------------------------------- generic helpers
Range(s) == {s[i] : i \in DOMAIN s}

\* the k-th smallest element of a finite set of integers
Nth(S, k) == CHOOSE x \in S : Cardinality({y \in S : y <= x}) = k

\* floor of the square root of n < 2^24 (np.linalg.norm, sklearn's row norms),
\* found bit by bit from the top
ISqrt(n) ==
    LET bit(p, k) == IF (p + 2 ^ (12 - k)) * (p + 2 ^ (12 - k)) <= n
                     THEN p + 2 ^ (12 - k) ELSE p
        r[k \in 0..12] == IF k = 0 THEN 0 ELSE Let(r[k - 1], LAMBDA p : bit(p, k))
    IN r[12]

\* round-toward-zero quotient of a signed numerator by a positive denominator
Quot(a, b) == IF a >= 0 THEN a \div b ELSE -((-a) \div b)

\* vectors are tuples of integers, one component per feature column
Dot(a, b) ==
    LET s[i \in 0..Len(a)] == IF i = 0 THEN 0 ELSE s[i - 1] + a[i] * b[i]
    IN s[Len(a)]

Norm(v) == Let(Dot(v, v), LAMBDA n : ISqrt(n))

\* sklearn.preprocessing.normalize (l2): a zero row stays zero
L2Normalize(v) ==
    Let(Norm(v), LAMBDA n : IF n = 0 THEN v ELSE [k \in DOMAIN v |-> Quot(Unit * v[k], n)])

\* sklearn.metrics.pairwise.cosine_similarity of one query row against the
\* rows of a matrix: both sides are l2-normalized, then multiplied.  The two
\* sides must have the same number of columns (callers check SameDim).
cosine_similarity(q, M) ==
    Let(L2Normalize(q), LAMBDA qn :
        [i \in DOMAIN M |-> Let(L2Normalize(M[i]), LAMBDA dn : Quot(Dot(qn, dn), Unit))])

SameDim(q, M) == \A i \in DOMAIN M : Len(M[i]) = Len(q)

\* ---------------------------------------------------------- preprocess.py
\* text.lower(); only the words the modelled texts use are tabulated
Lower(w) == IF w = "Flow" THEN "flow" ELSE w

\* nltk stopwords.words("english"), restricted to the modelled words
stopset == {"the"}

\* PorterStemmer.stem, restricted to the modelled words
Stem(w) ==
    CASE w = "turbine" -> "turbin"
      [] w = "turbines" -> "turbin"
      [] OTHER -> w

\* normalize_text(text, do_stem=True): the token list behind the joined string
normalize_text(text) ==
    Let(SelectSeq([i \in DOMAIN text |-> Lower(text[i])],
                  LAMBDA t : t \notin stopset /\ Len(t) > 1),
        LAMBDA kept : [i \in DOMAIN kept |-> Stem(kept[i])])

\* ------------------------------------------- TfidfVectorizer (scikit-learn)
\* sklearn's ENGLISH_STOP_WORDS, restricted to the modelled words
sk_stop == {"the"}

\* build_analyzer(): lowercase, tokens of two or more characters, stop words
\* removed, then word n-grams of order 1 and 2 (ngram_range=(1,2))
Analyze(tokens) ==
    Let(SelectSeq([i \in DOMAIN tokens |-> Lower(tokens[i])],
                  LAMBDA t : t \notin sk_stop /\ Len(t) > 1),
        LAMBDA kept :
            IF Len(kept) = 0 THEN <<>>
            ELSE [i \in 1..Len(kept) |-> <<kept[i]>>]
                 \o [i \in 1..(Len(kept) - 1) |-> <<kept[i], kept[i + 1]>>])

Count(grams, g) == Cardinality({i \in DOMAIN grams : grams[i] = g})

\* smooth idf, ln((1+n)/(1+df)) + 1, in units of 1/Unit
Idf(n, df) ==
    CASE df >= n -> 100
      [] n = 2 /\ df = 1 -> 141
      [] n = 3 /\ df = 1 -> 169
      [] n = 3 /\ df = 2 -> 129
      [] n = 4 /\ df = 1 -> 192
      [] n = 4 /\ df = 2 -> 151
      [] n = 4 /\ df = 3 -> 122
      [] OTHER -> 200

\* the concatenation of a sequence of sequences
Flatten(seqs) ==
    LET cat[i \in 0..Len(seqs)] == IF i = 0 THEN <<>> ELSE cat[i - 1] \o seqs[i]
    IN cat[Len(seqs)]

\* the distinct elements of a sequence, each at its first occurrence
Distinct(all) ==
    Let({i \in DOMAIN all : \A j \in 1..(i - 1) : all[j] # all[i]},
        LAMBDA firsts : [k \in 1..Cardinality(firsts) |-> all[Nth(firsts, k)]])

\* the number of documents whose n-grams include g
DocFreq(grams, g) == Cardinality({i \in DOMAIN grams : g \in Range(grams[i])})

\* TfidfVectorizer.fit: the vocabulary (one column per distinct n-gram; the
\* order of the columns has no effect on any dot product, and is taken to be
\* the order of first occurrence) and the idf of each column
Fit(texts) ==
    Let([i \in DOMAIN texts |-> Analyze(texts[i])], LAMBDA grams :
        Let(Distinct(Flatten(grams)), LAMBDA vocab :
            [vocabulary |-> vocab,
             idf |-> [k \in DOMAIN vocab |-> Idf(Len(texts), DocFreq(grams, vocab[k]))]]))

\* TfidfVectorizer.transform of one text: tf * idf, l2-normalized; terms
\* outside the vocabulary are dropped
Transform(vectorizer, tokens) ==
    Let(Analyze(tokens), LAMBDA grams :
        L2Normalize([k \in DOMAIN vectorizer.vocabulary |->
                        Count(grams, vectorizer.vocabulary[k]) * vectorizer.idf[k]]))

\* ------------------------------------------------ sentence encoder (stub)
\* SentenceTransformer("all-MiniLM-L6-v2").encode is a fixed function of the
\* raw text.  It is stood for by the sum of fixed two-dimensional word
\* vectors: what matters below is only that equal texts get equal vectors.
WordEmb(w) ==
    CASE w = "turbine" -> <<30, 10>>
      [] w = "turbines" -> <<28, 12>>
      [] w = "stress" -> <<10, 30>>
      [] w = "flow" -> <<-10, 20>>
      [] w = "Flow" -> <<-30, 0>>
      [] OTHER -> <<0, 0>>

Encode(text) ==
    LET acc[i \in 0..Len(text)] ==
            IF i = 0 THEN <<0, 0>>
            ELSE Let(acc[i - 1], LAMBDA p :
                     <<p[1] + WordEmb(text[i])[1], p[2] + WordEmb(text[i])[2]>>)
    IN acc[Len(text)]

\* ---------------------------------------------------------- data_loader.py
\* A document id is a typed cell: a Python str or an int.
StrId(v) == [t |-> "str", v |-> v]
IntId(v) == [t |-> "int", v |-> v]

\* The collections load_cranfield can find under data/cranfield: "A" and a
\* later revision "B" of it (fewer documents, another order), "E", whose
\* only document holds nothing but stop words, and "Z", no document at all
\* (corpus.jsonl and the raw files absent or empty).
CorpusNames == {"A", "B", "E", "Z"}

\* "R": a revision of "A" with the same documents in another order
Collections == CorpusNames \cup {"R"}

\* load_cranfield()[0]: corpus_df with columns id (str), title, text; for a
\* collection without documents see EmptyCollection
load_cranfield(c) ==
    CASE c = "A" ->
           << [id |-> StrId("1"), title |-> <<"turbine">>, text |-> <<"turbine", "stress">>],
              [id |-> StrId("2"), title |-> <<"Flow">>, text |-> <<"the", "flow">>],
              [id |-> StrId("3"), title |-> <<"stress">>, text |-> <<"stress", "flow">>] >>
      [] c = "B" ->
           << [id |-> StrId("3"), title |-> <<"stress">>, text |-> <<"stress", "flow">>],
              [id |-> StrId("1"), title |-> <<"turbine">>, text |-> <<"turbines", "stress">>] >>
      [] c = "R" ->
           << [id |-> StrId("3"), title |-> <<"stress">>, text |-> <<"stress", "flow">>],
              [id |-> StrId("1"), title |-> <<"turbine">>, text |-> <<"turbine", "stress">>],
              [id |-> StrId("2"), title |-> <<"Flow">>, text |-> <<"the", "flow">>] >>
      [] c = "Z" -> << >>
      [] OTHER ->
           << [id |-> StrId("1"), title |-> <<"the">>, text |-> <<"the">>] >>

\* data_loader.py:235-237: pd.DataFrame([]) has no columns, so
\* corpus_df.columns[0] raises IndexError before load_cranfield returns
EmptyCollection(c) == Len(load_cranfield(c)) = 0

\* ------------------------------------------------ persisted artifact values
\* build_index is a deterministic function of the collection it reads, so
\* the value of an artifact is named by that collection; the tables below
\* give the value behind each name.

\* indexer.py:19,25  docs: corpus_df with the text_norm column added
WithTextNorm(corpus_df) ==
    [i \in DOMAIN corpus_df |->
        [id |-> corpus_df[i].id, title |-> corpus_df[i].title, text |-> corpus_df[i].text,
         text_norm |-> normalize_text(corpus_df[i].text)]]

DocsFrame == [c \in Collections |-> WithTextNorm(load_cranfield(c))]

\* indexer.py:28  the fitted TfidfVectorizer
TextNorms(docs) == [i \in DOMAIN docs |-> docs[i].text_norm]

Vectorizer == [c \in Collections |-> Fit(TextNorms(DocsFrame[c]))]

\* fit_transform raises ValueError("empty vocabulary") when no term survives
EmptyVocabulary == [c \in Collections |-> Len(Vectorizer[c].vocabulary) = 0]

\* indexer.py:29  X: one l2-normalized tf-idf row per document
TransformAll(vectorizer, texts) == [i \in DOMAIN texts |-> Transform(vectorizer, texts[i])]

TfidfMatrix == [c \in Collections |-> TransformAll(Vectorizer[c], TextNorms(DocsFrame[c]))]

\* pandas writes the cell's text; read_csv infers a column of digit strings
\* as int64 and leaves any other column as str
IsDigits(v) == v \in {"1", "2", "3", "9"}

read_csv_ids(cells) ==
    IF \A i \in DOMAIN cells : IsDigits(cells[i].v)
    THEN [i \in DOMAIN cells |-> IntId(cells[i].v)]
    ELSE [i \in DOMAIN cells |-> StrId(cells[i].v)]

\* pd.read_csv(DOCS_PATH) of the file docs.to_csv(DOCS_PATH) wrote
read_csv(docs) ==
    Let(read_csv_ids([i \in DOMAIN docs |-> docs[i].id]), LAMBDA ids :
        [i \in DOMAIN docs |-> [docs[i] EXCEPT !.id = ids[i]]])

DocsCsv == [c \in Collections |-> read_csv(DocsFrame[c])]

\* semantic_index.py:20-21  one embedding per row of the document table read
\* from docs.csv: title + ". " + text
EncodeAll(docs) == [i \in DOMAIN docs |-> Encode(docs[i].title \o <<".">> \o docs[i].text)]

Embeddings == [c \in Collections |-> EncodeAll(DocsCsv[c])]

\* ------------------------------------------------------------------- state
VARIABLES
    corpus,   \* the collection load_cranfield reads now
    store,    \* data/: per artifact, "missing" or the name of its value
    tie,      \* how this build's argsort orders equal keys
    last,     \* the most recent call and what it returned or raised
    encoders  \* SentenceTransformer instances constructed by this process

vars == <<corpus, store, tie, last, encoders>>

Missing == "missing"
Artifacts == {"vec", "mat", "docs", "emb"}   \* TFIDF_PATH, VEC_MATRIX_PATH, DOCS_PATH, EMB_PATH
NoCall == [op |-> "none"]

\* a document table in memory: the frame build_index made, or a read of docs.csv
Frame(c) == [of |-> c, form |-> "frame"]
Csv(c) == [of |-> c, form |-> "csv"]
Table(h) == IF h.form = "frame" THEN DocsFrame[h.of] ELSE DocsCsv[h.of]

\* ------------------------------------------------------------- inputs
Queries == {<<"turbines", "stress">>, <<"flow">>, <<"the">>}
Topks == 1..MaxTopk
Lambdas == 0..LamDen
ClickLists ==
    { <<>>,
      <<StrId("1")>>, <<IntId("1")>>, <<StrId("9")>>,
      <<StrId("1"), StrId("9")>>, <<StrId("9"), IntId("1")>>,
      <<IntId("1"), IntId("3")>> }

\* numpy's default argsort (kind="quicksort") is not stable: the order of
\* equal keys is fixed by the build but is not the row order in general.
\* tie[i] is the precedence of row i among rows with equal keys.
TieOrders == {<<1, 2, 3>>, <<3, 2, 1>>}

\* ----------------------------------------------------------- indexer.py
\* a build that creates data/ and writes the document table before it fits
\* the vectorizer
build_index_writes_first(st, c) ==
    IF EmptyCollection(c)
    THEN [ok |-> FALSE, err |-> "IndexError", st |-> st]
    ELSE IF EmptyVocabulary[c]
    THEN [ok |-> FALSE, err |-> "ValueError", st |-> [st EXCEPT !.docs = c]]
    ELSE [ok |-> TRUE, err |-> "",
          st |-> [st EXCEPT !.vec = c, !.mat = c, !.docs = c],
          vectorizer |-> c, X |-> c, docs |-> Frame(c)]

\* line 16 raises for a collection without documents, line 29 for an empty
\* vocabulary; the files are written after both (lines 32-35)
build_index(st, c) ==
    IF EmptyCollection(c)
    THEN [ok |-> FALSE, err |-> "IndexError", st |-> st]
    ELSE IF EmptyVocabulary[c]
    THEN [ok |-> FALSE, err |-> "ValueError", st |-> st]
    ELSE [ok |-> TRUE, err |-> "",
          st |-> [st EXCEPT !.vec = c, !.mat = c, !.docs = c],
          vectorizer |-> c, X |-> c, docs |-> Frame(c)]

\* indexer.py:33-35: the three files are written one after the other, each
\* in place; a run that is stopped or fails after `written` of the dumps
\* (OSError of a full disk at the next one) leaves those written and the
\* older copies of the rest
Written == 1..2

build_index_aborted(st, c, written) ==
    IF EmptyCollection(c)
    THEN [ok |-> FALSE, err |-> "IndexError", st |-> st]
    ELSE IF EmptyVocabulary[c]
    THEN [ok |-> FALSE, err |-> "ValueError", st |-> st]
    ELSE [ok |-> FALSE, err |-> "OSError",
          st |-> IF written = 1 THEN [st EXCEPT !.vec = c]
                 ELSE [st EXCEPT !.vec = c, !.mat = c]]


\* a load that reads the artifacts present and rebuilds only the missing ones
load_index_partial(st, c) ==
    IF st.vec # Missing /\ st.mat # Missing /\ st.docs # Missing
    THEN [ok |-> TRUE, err |-> "", st |-> st,
          vectorizer |-> st.vec, X |-> st.mat, docs |-> Csv(st.docs)]
    ELSE IF EmptyCollection(c)
    THEN [ok |-> FALSE, err |-> "IndexError", st |-> st]
    ELSE IF EmptyVocabulary[c]
    THEN [ok |-> FALSE, err |-> "ValueError", st |-> st]
    ELSE [ok |-> TRUE, err |-> "",
          st |-> [a \in Artifacts |->
                     IF a # "emb" /\ st[a] = Missing THEN c ELSE st[a]],
          vectorizer |-> IF st.vec = Missing THEN c ELSE st.vec,
          X |-> IF st.mat = Missing THEN c ELSE st.mat,
          docs |-> IF st.docs = Missing THEN Frame(c) ELSE Csv(st.docs)]

load_index(st, c) ==
    IF st.vec # Missing /\ st.mat # Missing /\ st.docs # Missing
    THEN [ok |-> TRUE, err |-> "", st |-> st,
          vectorizer |-> st.vec, X |-> st.mat, docs |-> Csv(st.docs)]
    ELSE build_index(st, c)

\* ---------------------------------------------------------- retrieve.py
retrieve_load_index(st, c) ==
    IF st.vec # Missing /\ st.mat # Missing /\ st.docs # Missing
    THEN [ok |-> TRUE, err |-> "", st |-> st,
          vectorizer |-> st.vec, X |-> st.mat, docs |-> Csv(st.docs)]
    ELSE build_index(st, c)

\* ----------------------------------------------------- semantic_index.py
\* a semantic build that embeds the collection load_cranfield reads instead
\* of the rows of docs.csv
build_semantic_index_of_corpus(st, c) ==
    Let(IF st.docs = Missing THEN build_index(st, c)
        ELSE [ok |-> TRUE, err |-> "", st |-> st],
        LAMBDA pre :
            IF ~pre.ok THEN [ok |-> FALSE, err |-> pre.err, st |-> pre.st]
            ELSE [ok |-> TRUE, err |-> "",
                  st |-> [pre.st EXCEPT !.emb = IF EmptyVocabulary[c] THEN pre.st.docs ELSE c],
                  emb_matrix |-> IF EmptyVocabulary[c] THEN pre.st.docs ELSE c,
                  docs |-> Csv(pre.st.docs)])

build_semantic_index(st, c) ==
    Let(IF st.docs = Missing THEN build_index(st, c)
        ELSE [ok |-> TRUE, err |-> "", st |-> st],
        LAMBDA pre :
            IF ~pre.ok THEN [ok |-> FALSE, err |-> pre.err, st |-> pre.st]
            ELSE [ok |-> TRUE, err |-> "",
                  st |-> [pre.st EXCEPT !.emb = pre.st.docs],
                  emb_matrix |-> pre.st.docs, docs |-> Csv(pre.st.docs)])

load_semantic_index(st) ==
    IF st.emb = Missing \/ st.docs = Missing
    THEN [ok |-> FALSE, err |-> "FileNotFoundError", st |-> st]
    ELSE [ok |-> TRUE, err |-> "", st |-> st,
          emb_matrix |-> st.emb, docs |-> Csv(st.docs)]

\* ------------------------------------------------------------ feedback.py
\* ALPHA, BETA, GAMMA in tenths
ALPHA == 10
BETA == 8
GAMMA == 0

\* coef * np.mean(vecs, axis=0)[k]
CoefMean(coef, vecs, k) ==
    LET acc[j \in 0..Len(vecs)] == IF j = 0 THEN 0 ELSE acc[j - 1] + vecs[j][k]
    IN Quot(coef * acc[Len(vecs)], Len(vecs))

\* None and an empty array are both written <<>>: the code tests
\* "is not None and len(..) > 0".  The result is in units of 1/(10*Unit).
rocchio_tfidf(query_vec, rel_doc_vecs, nonrel_doc_vecs, alpha, beta, gamma) ==
    [k \in DOMAIN query_vec |->
        alpha * query_vec[k]
        + (IF rel_doc_vecs # <<>> THEN CoefMean(beta, rel_doc_vecs, k) ELSE 0)
        - (IF nonrel_doc_vecs # <<>> THEN CoefMean(gamma, nonrel_doc_vecs, k) ELSE 0)]

\* the combination of rocchio_emb returned as it is, without the division
rocchio_emb_raw(query_emb, rel_embs, nonrel_embs, alpha, beta, gamma) ==
    [k \in DOMAIN query_emb |->
        alpha * query_emb[k]
        + (IF rel_embs # <<>> THEN CoefMean(beta, rel_embs, k) ELSE 0)
        - (IF nonrel_embs # <<>> THEN CoefMean(gamma, nonrel_embs, k) ELSE 0)]

\* as rocchio_tfidf, then divided by (norm + 1e-9): a unit vector, or the
\* zero vector when the combination is zero
rocchio_emb(query_emb, rel_embs, nonrel_embs, alpha, beta, gamma) ==
    L2Normalize([k \in DOMAIN query_emb |->
        alpha * query_emb[k]
        + (IF rel_embs # <<>> THEN CoefMean(beta, rel_embs, k) ELSE 0)
        - (IF nonrel_embs # <<>> THEN CoefMean(gamma, nonrel_embs, k) ELSE 0)])

\* ------------------------------------------------------ score computations
InRows(rel_idxs, M) == \A j \in DOMAIN rel_idxs : rel_idxs[j] \in DOMAIN M

\* M[rel_idxs]: the rows of M at the positions rel_idxs
Rows(M, rel_idxs) == [j \in DOMAIN rel_idxs |-> M[rel_idxs[j]]]

\* cosine_similarity(vectorizer.transform([tokens]), X).flatten(); <<>> stands
\* for the ValueError of a column-count mismatch
lexical_scores(vectorizer, X, tokens) ==
    Let(Transform(vectorizer, tokens), LAMBDA qv :
        IF SameDim(qv, X) THEN cosine_similarity(qv, X) ELSE <<>>)

\* cosine_similarity(model.encode([query]), emb_matrix).flatten()
semantic_scores(emb_matrix, query) == cosine_similarity(Encode(query), emb_matrix)

\* feedback.py:38,43,46,49 for rel_idxs within the rows of X
feedback_lexical_scores(vectorizer, X, qtext, rel_idxs, alpha, beta, gamma) ==
    Let(Transform(vectorizer, qtext), LAMBDA qv :
        IF ~SameDim(qv, X) \/ ~InRows(rel_idxs, X) THEN <<>>
        ELSE cosine_similarity(
                 rocchio_tfidf(qv, Rows(X, rel_idxs), <<>>, alpha, beta, gamma), X))

\* feedback.py:39,44,47,50 for rel_idxs within the rows of emb_matrix
feedback_semantic_scores(emb_matrix, qtext, rel_idxs, alpha, beta, gamma) ==
    IF ~InRows(rel_idxs, emb_matrix) THEN <<>>
    ELSE cosine_similarity(
             rocchio_emb(Encode(qtext), Rows(emb_matrix, rel_idxs), <<>>,
                         alpha, beta, gamma), emb_matrix)

\* The score vectors depend only on the artifact values and the request, so
\* they are tabulated once per (artifact names, request).
Built == {c \in Collections : ~EmptyVocabulary[c]}
TokenSeqs == Queries \cup {normalize_text(q) : q \in Queries}
RowIds == UNION {DOMAIN DocsFrame[c] : c \in Collections}
RelLists == UNION {[1..n -> RowIds] : n \in {Len(l) : l \in ClickLists}}

LexicalScores ==
    [v \in Built, m \in Built, t \in TokenSeqs |->
        lexical_scores(Vectorizer[v], TfidfMatrix[m], t)]

SemanticScores ==
    [e \in Built, q \in Queries |-> semantic_scores(Embeddings[e], q)]

FeedbackLexicalScores ==
    [v \in Built, m \in Built, q \in Queries, rel_idxs \in RelLists |->
        feedback_lexical_scores(Vectorizer[v], TfidfMatrix[m], q, rel_idxs, ALPHA, BETA, GAMMA)]

FeedbackSemanticScores ==
    [e \in Built, q \in Queries, rel_idxs \in RelLists |->
        feedback_semantic_scores(Embeddings[e], q, rel_idxs, ALPHA, BETA, GAMMA)]

\* ------------------------------------------------- fusion and top-k
\* lambda_weight * sem_scores + (1-lambda_weight) * tf_scores with numpy
\* broadcasting, in units of 1/(Unit*LamDen); <<>> stands for the ValueError
\* of shapes that cannot be broadcast together
BroadcastLen(a, b) ==
    IF Len(a) = Len(b) THEN Len(b)
    ELSE IF Len(a) = 1 THEN Len(b)
    ELSE IF Len(b) = 1 THEN Len(a)
    ELSE 0

At(a, i) == IF Len(a) = 1 THEN a[1] ELSE a[i]

\* a fusion with the two weights exchanged
FuseSwapped(lam, sem_scores, tf_scores) ==
    [i \in 1..BroadcastLen(sem_scores, tf_scores) |->
        lam * At(tf_scores, i) + (LamDen - lam) * At(sem_scores, i)]

Fuse(lam, sem_scores, tf_scores) ==
    [i \in 1..BroadcastLen(sem_scores, tf_scores) |->
        lam * At(sem_scores, i) + (LamDen - lam) * At(tf_scores, i)]

\* keys.argsort(): the rows in ascending key order, equal keys in the order
\* of the precedence pri
argsort(keys, pri) ==
    LET before(j, i) == keys[j] < keys[i] \/ (keys[j] = keys[i] /\ pri[j] < pri[i])
        pos(i) == 1 + Cardinality({j \in DOMAIN keys : before(j, i)})
    IN [k \in DOMAIN keys |-> CHOOSE i \in DOMAIN keys : pos(i) = k]

Min(a, b) == IF a <= b THEN a ELSE b

\* a top-k that sorts the scores themselves, not their negation
TopIdxAscending(scores, topk, pri) ==
    SubSeq(argsort(scores, pri), 1, Min(topk, Len(scores)))

\* a top-k without the [:topk] slice
TopIdxUncut(scores, topk, pri) ==
    argsort([i \in DOMAIN scores |-> -scores[i]], pri)

\* idx = (-scores).argsort()[:topk]
TopIdx(scores, topk, pri) ==
    SubSeq(argsort([i \in DOMAIN scores |-> -scores[i]], pri), 1, Min(topk, Len(scores)))

\* an assign that attaches the leading entries of each score array
AssignUnindexed(docs, idx, scores, tf_scores, sem_scores) ==
    [k \in DOMAIN idx |->
        [row |-> idx[k], id |-> docs[idx[k]].id, score |-> scores[k],
         tf_score |-> tf_scores[k], sem_score |-> sem_scores[k]]]

\* docs.iloc[idx].assign(score=scores[idx], tf_score=tf_scores[idx],
\* sem_score=sem_scores[idx]); <<>>-free: callers check Indexable first
Assign(docs, idx, scores, tf_scores, sem_scores) ==
    [k \in DOMAIN idx |->
        [row |-> idx[k], id |-> docs[idx[k]].id, score |-> scores[idx[k]],
         tf_score |-> tf_scores[idx[k]], sem_score |-> sem_scores[idx[k]]]]

\* every position of idx exists in the table and in each score array
Indexable(docs, idx, tf_scores, sem_scores) ==
    \A k \in DOMAIN idx :
        idx[k] <= Len(docs) /\ idx[k] <= Len(tf_scores) /\ idx[k] <= Len(sem_scores)

\* lines 31-33 of hybrid_retrieve.py and 51-53 of feedback.py
Rank(docs, tf_scores, sem_scores, topk, lam, pri) ==
    Let(Fuse(lam, sem_scores, tf_scores), LAMBDA scores :
        IF tf_scores = <<>> \/ scores = <<>>
        THEN [status |-> "ValueError"]
        ELSE Let(TopIdx(scores, topk, pri), LAMBDA idx :
                 IF ~Indexable(docs, idx, tf_scores, sem_scores)
                 THEN [status |-> "IndexError"]
                 ELSE [status |-> "ok", tf_scores |-> tf_scores,
                       sem_scores |-> sem_scores, scores |-> scores,
                       rows |-> Assign(docs, idx, scores, tf_scores, sem_scores)]))

\* ---------------------------------------------------------- retrieve.py
\* docs.iloc[idx].assign(score=scores[idx])
AssignScore(docs, idx, scores) ==
    [k \in DOMAIN idx |-> [row |-> idx[k], id |-> docs[idx[k]].id, score |-> scores[idx[k]]]]

\* lines 22-25 of retrieve.py
RankLexical(docs, scores, topk, pri) ==
    IF scores = <<>> THEN [status |-> "ValueError"]
    ELSE Let(TopIdx(scores, topk, pri), LAMBDA idx :
             IF \E k \in DOMAIN idx : idx[k] > Len(docs)
             THEN [status |-> "IndexError"]
             ELSE [status |-> "ok", rows |-> AssignScore(docs, idx, scores)])

tfidf_search(st, c, pri, query, topk) ==
    Let(retrieve_load_index(st, c), LAMBDA ix :
        IF ~ix.ok THEN [status |-> ix.err, st |-> ix.st]
        ELSE [st |-> ix.st]
             @@ RankLexical(Table(ix.docs),
                            LexicalScores[ix.vectorizer, ix.X, normalize_text(query)],
                            topk, pri))

\* ----------------------------------------------------- hybrid_retrieve.py
\* lines 12-15: load_index with build_index as the fallback
hybrid_lexical(st, c) ==
    Let(load_index(st, c), LAMBDA try : IF try.ok THEN try ELSE build_index(try.st, c))

\* lines 17-20: load_semantic_index with build_semantic_index as the fallback
hybrid_semantic(st, c) ==
    Let(load_semantic_index(st), LAMBDA try :
        IF try.ok THEN try ELSE build_semantic_index(try.st, c))

\* lines 23-33, with both indexes in hand
hybrid_rank(lex, sem, pri, query, topk, lam) ==
    IF Len(Table(lex.docs)) # Len(Table(sem.docs))
    THEN [status |-> "AssertionError", st |-> sem.st,
          docs |-> lex.docs, docs2 |-> sem.docs]
    ELSE [docs |-> lex.docs, docs2 |-> sem.docs, st |-> sem.st]
         @@ Rank(Table(lex.docs),
                 LexicalScores[lex.vectorizer, lex.X, normalize_text(query)],
                 SemanticScores[sem.emb_matrix, query],
                 topk, lam, pri)

hybrid_search(st, c, pri, query, topk, lam) ==
    Let(hybrid_lexical(st, c), LAMBDA lex :
        IF ~lex.ok THEN [status |-> lex.err, st |-> lex.st]
        ELSE Let(hybrid_semantic(lex.st, c), LAMBDA sem :
                 IF ~sem.ok THEN [status |-> sem.err, st |-> sem.st]
                 ELSE hybrid_rank(lex, sem, pri, query, topk, lam)))

\* ------------------------------------------------------------ feedback.py
\* doc_index_map = {d: i for i, d in enumerate(docs['id'])}: the last row
\* holding an id wins
RowOf(docs, did) == CHOOSE i \in DOMAIN docs :
                        docs[i].id = did /\ \A j \in DOMAIN docs : docs[j].id = did => j <= i

InMap(docs, did) == \E i \in DOMAIN docs : docs[i].id = did

\* a lookup that sends an id outside the map to the last row
\* (doc_index_map.get(did, -1)) instead of dropping it
RelIdxsDefaulted(docs, clicked_doc_ids) ==
    [j \in DOMAIN clicked_doc_ids |->
        IF InMap(docs, clicked_doc_ids[j]) THEN RowOf(docs, clicked_doc_ids[j])
        ELSE Len(docs)]

\* rel_idxs = [doc_index_map[did] for did in clicked_doc_ids if did in doc_index_map]
RelIdxs(docs, clicked_doc_ids) ==
    Let(SelectSeq(clicked_doc_ids, LAMBDA did : InMap(docs, did)),
        LAMBDA known : [j \in DOMAIN known |-> RowOf(docs, known[j])])

\* a feedback ranking that leaves the clicked documents out of its result
feedback_rank_unclicked(lex, sem, rel_idxs, pri, qtext, topk, lam) ==
    IF ~InRows(rel_idxs, TfidfMatrix[lex.X]) \/ ~InRows(rel_idxs, Embeddings[sem.emb_matrix])
    THEN [status |-> "IndexError", st |-> sem.st, docs |-> lex.docs, docs2 |-> sem.docs]
    ELSE [docs |-> lex.docs, docs2 |-> sem.docs, st |-> sem.st, rel_idxs |-> rel_idxs]
         @@ Let(Rank(Table(lex.docs),
                     FeedbackLexicalScores[lex.vectorizer, lex.X, qtext, rel_idxs],
                     FeedbackSemanticScores[sem.emb_matrix, qtext, rel_idxs],
                     topk, lam, pri),
                LAMBDA r :
                    IF r.status # "ok" THEN r
                    ELSE [r EXCEPT !.rows =
                             SelectSeq(r.rows, LAMBDA row : row.row \notin Range(rel_idxs))])

\* lines 38-53, with both indexes and rel_idxs in hand
feedback_rank(lex, sem, rel_idxs, pri, qtext, topk, lam) ==
    IF ~InRows(rel_idxs, TfidfMatrix[lex.X]) \/ ~InRows(rel_idxs, Embeddings[sem.emb_matrix])
    THEN [status |-> "IndexError", st |-> sem.st, docs |-> lex.docs, docs2 |-> sem.docs]
    ELSE [docs |-> lex.docs, docs2 |-> sem.docs, st |-> sem.st, rel_idxs |-> rel_idxs]
         @@ Rank(Table(lex.docs),
                 FeedbackLexicalScores[lex.vectorizer, lex.X, qtext, rel_idxs],
                 FeedbackSemanticScores[sem.emb_matrix, qtext, rel_idxs],
                 topk, lam, pri)

apply_feedback_for_query(st, c, pri, qtext, clicked_doc_ids, topk, lam) ==
    Let(load_index(st, c), LAMBDA lex :
        IF ~lex.ok THEN [status |-> lex.err, st |-> lex.st]
        ELSE Let(load_semantic_index(lex.st), LAMBDA sem :
                 IF ~sem.ok THEN [status |-> sem.err, st |-> sem.st]
                 ELSE Let(RelIdxs(Table(lex.docs), clicked_doc_ids), LAMBDA rel_idxs :
                          feedback_rank(lex, sem, rel_idxs, pri, qtext, topk, lam))))

\* ------------------------------------------ loads that fail otherwise
\* A read of an existing artifact can raise something other than
\* FileNotFoundError (a truncated or incompatible pickle in joblib.load, an
\* unreadable array in np.load, an OSError).  fault names the load, if any,
\* that raises so in a call.
Faults == {"none", "load_index", "load_semantic_index"}

\* indexer.py:42-47: only FileNotFoundError is handled inside load_index
load_index_under(st, c, fault) ==
    IF fault = "load_index"
    THEN [ok |-> FALSE, err |-> "OSError", st |-> st]
    ELSE load_index(st, c)

load_semantic_index_under(st, fault) ==
    IF fault = "load_semantic_index" /\ st.emb # Missing /\ st.docs # Missing
    THEN [ok |-> FALSE, err |-> "OSError", st |-> st]
    ELSE load_semantic_index(st)

\* hybrid_retrieve.py:13-21: the bare except clauses take any exception of
\* a load as the signal to build
hybrid_search_under(st, c, pri, query, topk, lam, fault) ==
    Let(Let(load_index_under(st, c, fault), LAMBDA try :
                IF try.ok THEN try ELSE build_index(try.st, c)),
        LAMBDA lex :
            IF ~lex.ok THEN [status |-> lex.err, st |-> lex.st]
            ELSE Let(Let(load_semantic_index_under(lex.st, fault), LAMBDA try :
                             IF try.ok THEN try ELSE build_semantic_index(try.st, c)),
                     LAMBDA sem :
                         IF ~sem.ok THEN [status |-> sem.err, st |-> sem.st]
                         ELSE hybrid_rank(lex, sem, pri, query, topk, lam)))

\* feedback.py:36-37: no handler, the exception ends the call
apply_feedback_for_query_under(st, c, pri, qtext, clicked_doc_ids, topk, lam, fault) ==
    Let(load_index_under(st, c, fault), LAMBDA lex :
        IF ~lex.ok THEN [status |-> lex.err, st |-> lex.st]
        ELSE Let(load_semantic_index_under(lex.st, fault), LAMBDA sem :
                 IF ~sem.ok THEN [status |-> sem.err, st |-> sem.st]
                 ELSE Let(RelIdxs(Table(lex.docs), clicked_doc_ids), LAMBDA rel_idxs :
                          feedback_rank(lex, sem, rel_idxs, pri, qtext, topk, lam))))


\* what a call leaves in `last`: its outcome without the store
Outcome(r) == [f \in (DOMAIN r) \ {"st", "ok", "err"} |-> r[f]]

\* ----------------------------------------------------------------- actions
Init ==
    /\ corpus \in CorpusNames
    /\ store = [a \in Artifacts |-> Missing]
    /\ tie \in TieOrders
    /\ last = NoCall
    /\ encoders = 0

Idle == last = NoCall

\* the caller takes the result and the script ends; the next call is made
\* by a new process (python -m src.retrieve, src.test_feedback, ...)
Return ==
    /\ ~Idle
    /\ last' = NoCall
    /\ encoders' = 0
    /\ UNCHANGED <<corpus, store, tie>>

\* the collection under data/cranfield is replaced
ChangeCorpus ==
    /\ Idle
    /\ \E c \in CorpusNames \ {corpus} : corpus' = c
    /\ UNCHANGED <<store, tie, last, encoders>>

\* a persisted artifact is removed from data/
DeleteArtifact ==
    /\ Idle
    /\ \E a \in Artifacts :
          /\ store[a] # Missing
          /\ store' = [store EXCEPT ![a] = Missing]
    /\ UNCHANGED <<corpus, tie, last, encoders>>

Status(r) == IF r.ok THEN "ok" ELSE r.err

\* the SentenceTransformer(...) calls a call made: one at semantic_index.py:29
\* or :19 when it got a semantic index in hand (the reads before those lines
\* raise first otherwise), none in the lexical operations
MaxEncoders == 2
Constructed(r) ==
    IF "emb_matrix" \in DOMAIN r \/ "docs2" \in DOMAIN r THEN 1 ELSE 0

BuildIndex ==
    /\ Idle
    /\ \E r \in {build_index(store, corpus)} :
          /\ store' = r.st
          /\ last' = [op |-> "build_index", status |-> Status(r)] @@ Outcome(r)
    /\ UNCHANGED <<corpus, tie, encoders>>

LoadIndex ==
    /\ Idle
    /\ \E module \in {"indexer", "retrieve"} :
          \E r \in {IF module = "indexer" THEN load_index(store, corpus)
                    ELSE retrieve_load_index(store, corpus)} :
             /\ store' = r.st
             /\ last' = [op |-> "load_index", module |-> module, status |-> Status(r)]
                        @@ Outcome(r)
    /\ UNCHANGED <<corpus, tie, encoders>>

BuildSemanticIndex ==
    /\ Idle
    /\ \E r \in {build_semantic_index(store, corpus)} :
          /\ encoders + Constructed(r) <= MaxEncoders
          /\ encoders' = encoders + Constructed(r)
          /\ store' = r.st
          /\ last' = [op |-> "build_semantic_index", status |-> Status(r)] @@ Outcome(r)
    /\ UNCHANGED <<corpus, tie>>

LoadSemanticIndex ==
    /\ Idle
    /\ \E r \in {load_semantic_index(store)} :
          /\ encoders + Constructed(r) <= MaxEncoders
          /\ encoders' = encoders + Constructed(r)
          /\ store' = r.st
          /\ last' = [op |-> "load_semantic_index", status |-> Status(r)] @@ Outcome(r)
    /\ UNCHANGED <<corpus, tie>>

TfidfSearch ==
    /\ Idle
    /\ \E query \in Queries, topk \in Topks :
          \E r \in {tfidf_search(store, corpus, tie, query, topk)} :
             /\ store' = r.st
             /\ last' = [op |-> "tfidf_search", query |-> query, topk |-> topk]
                        @@ Outcome(r)
    /\ UNCHANGED <<corpus, tie, encoders>>

HybridSearch ==
    /\ Idle
    /\ \E query \in Queries, topk \in Topks, lam \in Lambdas :
          \E r \in {hybrid_search(store, corpus, tie, query, topk, lam)} :
             /\ encoders + Constructed(r) <= MaxEncoders
             /\ encoders' = encoders + Constructed(r)
             /\ store' = r.st
             /\ last' = [op |-> "hybrid_search", query |-> query, topk |-> topk,
                         lam |-> lam] @@ Outcome(r)
    /\ UNCHANGED <<corpus, tie>>

ApplyFeedback ==
    /\ Idle
    /\ \E qtext \in Queries, clicked \in ClickLists, topk \in Topks, lam \in Lambdas :
          \E r \in {apply_feedback_for_query(store, corpus, tie, qtext, clicked, topk, lam)} :
             /\ encoders + Constructed(r) <= MaxEncoders
             /\ encoders' = encoders + Constructed(r)
             /\ store' = r.st
             /\ last' = [op |-> "apply_feedback_for_query", query |-> qtext,
                         clicked |-> clicked, topk |-> topk, lam |-> lam] @@ Outcome(r)
    /\ UNCHANGED <<corpus, tie>>

Next ==
    \/ Return
    \/ ChangeCorpus
    \/ DeleteArtifact
    \/ BuildIndex
    \/ LoadIndex
    \/ BuildSemanticIndex
    \/ LoadSemanticIndex
    \/ TfidfSearch
    \/ HybridSearch
    \/ ApplyFeedback

Spec == Init /\ [][Next]_vars

\* ------------------------------------- the collection revised in place
\* data/cranfield holds "A" or its reordered revision "R"; the indexes are
\* built, and searched, in between
RevisionInit ==
    /\ corpus = "A"
    /\ store = [a \in Artifacts |-> Missing]
    /\ tie \in TieOrders
    /\ last = NoCall
    /\ encoders = 0

ReviseCorpus ==
    /\ Idle
    /\ corpus' = IF corpus = "A" THEN "R" ELSE "A"
    /\ UNCHANGED <<store, tie, last, encoders>>

RevisionNext ==
    \/ Return
    \/ ReviseCorpus
    \/ BuildIndex
    \/ BuildSemanticIndex
    \/ HybridSearch
    \/ ApplyFeedback

RevisionSpec == RevisionInit /\ [][RevisionNext]_vars


\* ------------------------------------ successive calls of one process
\* the Streamlit process of app.py stays up between searches (app.py:87-88),
\* as does the loop of run_eval.py: the caller takes the result and the
\* same process makes the next call
ProcessInit ==
    /\ corpus = "A"
    /\ store = [a \in Artifacts |-> Missing]
    /\ tie \in TieOrders
    /\ last = NoCall
    /\ encoders = 0

NextRequest ==
    /\ ~Idle
    /\ last' = NoCall
    /\ UNCHANGED <<corpus, store, tie, encoders>>

ProcessNext ==
    \/ NextRequest
    \/ HybridSearch
    \/ ApplyFeedback

ProcessSpec == ProcessInit /\ [][ProcessNext]_vars


\* ------------------------------------------- searches with failing loads
FaultInit ==
    /\ corpus = "A"
    /\ store = [a \in Artifacts |-> Missing]
    /\ tie \in TieOrders
    /\ last = NoCall
    /\ encoders = 0

HybridSearchUnder ==
    /\ Idle
    /\ \E query \in Queries, topk \in Topks, lam \in Lambdas, fault \in Faults :
          \E r \in {hybrid_search_under(store, corpus, tie, query, topk, lam, fault)} :
             /\ encoders + Constructed(r) <= MaxEncoders
             /\ encoders' = encoders + Constructed(r)
             /\ store' = r.st
             /\ last' = [op |-> "hybrid_search", query |-> query, topk |-> topk,
                         lam |-> lam, fault |-> fault] @@ Outcome(r)
    /\ UNCHANGED <<corpus, tie>>

ApplyFeedbackUnder ==
    /\ Idle
    /\ \E qtext \in Queries, clicked \in ClickLists, topk \in Topks, lam \in Lambdas,
          fault \in Faults :
          \E r \in {apply_feedback_for_query_under(store, corpus, tie, qtext, clicked,
                                                   topk, lam, fault)} :
             /\ encoders + Constructed(r) <= MaxEncoders
             /\ encoders' = encoders + Constructed(r)
             /\ store' = r.st
             /\ last' = [op |-> "apply_feedback_for_query", query |-> qtext,
                         clicked |-> clicked, topk |-> topk, lam |-> lam,
                         fault |-> fault] @@ Outcome(r)
    /\ UNCHANGED <<corpus, tie>>

FaultNext ==
    \/ Return
    \/ ReviseCorpus
    \/ BuildIndex
    \/ BuildSemanticIndex
    \/ HybridSearchUnder
    \/ ApplyFeedbackUnder

FaultSpec == FaultInit /\ [][FaultNext]_vars


\* ------------------------------------------------- builds that are cut short
BuildIndexAborted ==
    /\ Idle
    /\ \E written \in Written :
          \E r \in {build_index_aborted(store, corpus, written)} :
             /\ store' = r.st
             /\ last' = [op |-> "build_index", status |-> Status(r), written |-> written]
    /\ UNCHANGED <<corpus, tie, encoders>>

WriterNext ==
    \/ Return
    \/ ChangeCorpus
    \/ BuildIndex
    \/ BuildIndexAborted
    \/ LoadIndex

WriterSpec == Init /\ [][WriterNext]_vars


\* ------------------------------------------------------------------ eval.py
\* A metric value is the exact quotient num/den of two integers; 0.0 is 0/1.
\* A document id is a string; relevant_set is a set of ids.
MaxK == 3            \* k ranges over 1..MaxK
MaxRetrieved == 3    \* retrieved_ids holds at most MaxRetrieved ids

DocIds == {"1", "2", "3"}
Ks == 1..MaxK
RetrievedLists == UNION {[1..n -> DocIds] : n \in 0..MaxRetrieved}
RelevantSets == SUBSET DocIds

\* retrieved_k = retrieved_ids[:k]
Prefix(retrieved_ids, k) == SubSeq(retrieved_ids, 1, Min(k, Len(retrieved_ids)))

\* sum(1 for d in retrieved_k if d in relevant_set)
Hits(retrieved_k, relevant_set) ==
    Cardinality({i \in DOMAIN retrieved_k : retrieved_k[i] \in relevant_set})

\* a precision that divides by the number of ids it looked at
precision_at_k_of_retrieved(retrieved_ids, relevant_set, k) ==
    [num |-> Hits(Prefix(retrieved_ids, k), relevant_set),
     den |-> Len(Prefix(retrieved_ids, k))]

precision_at_k(retrieved_ids, relevant_set, k) ==
    [num |-> Hits(Prefix(retrieved_ids, k), relevant_set), den |-> k]

\* n!: a common denominator of hits/i for the ranks i of a list of n ids
Factorial(n) ==
    LET f[i \in 0..n] == IF i = 0 THEN 1 ELSE i * f[i - 1]
    IN f[n]

\* the loop of lines 11-16: hits, and sum_prec in units of 1/den
PrecisionLoop(retrieved_ids, relevant_set, den) ==
    LET step(p, i) == IF retrieved_ids[i] \in relevant_set
                      THEN [hits |-> p.hits + 1,
                            sum_prec |-> p.sum_prec + (p.hits + 1) * (den \div i)]
                      ELSE p
        acc[i \in 0..Len(retrieved_ids)] ==
            IF i = 0 THEN [hits |-> 0, sum_prec |-> 0]
            ELSE Let(acc[i - 1], LAMBDA p : step(p, i))
    IN acc[Len(retrieved_ids)]

\* an average precision over the relevant documents found, not over all of
\* relevant_set
average_precision_over_hits(retrieved_ids, relevant_set) ==
    Let(PrecisionLoop(retrieved_ids, relevant_set, Factorial(Len(retrieved_ids))),
        LAMBDA end :
            IF end.hits = 0 THEN [num |-> 0, den |-> 1]
            ELSE [num |-> end.sum_prec,
                  den |-> Factorial(Len(retrieved_ids)) * end.hits])

average_precision(retrieved_ids, relevant_set) ==
    Let(PrecisionLoop(retrieved_ids, relevant_set, Factorial(Len(retrieved_ids))),
        LAMBDA end :
            IF end.hits = 0 THEN [num |-> 0, den |-> 1]
            ELSE [num |-> end.sum_prec,
                  den |-> Factorial(Len(retrieved_ids)) * Cardinality(relevant_set)])

\* the weight of rank i in thousandths: 1 at rank 1, 1/math.log2(i) after it
Discount(i) ==
    CASE i = 1 -> 1000
      [] i = 2 -> 1000
      [] i = 3 -> 631
      [] i = 4 -> 500
      [] i = 5 -> 431
      [] i = 6 -> 387
      [] i = 7 -> 356
      [] OTHER -> 333

\* the sum over the ranks of rels of rels[i] * Discount(i + shift)
DiscountedSum(rels, shift) ==
    LET acc[i \in 0..Len(rels)] ==
            IF i = 0 THEN 0 ELSE acc[i - 1] + rels[i] * Discount(i + shift)
    IN acc[Len(rels)]

\* rel_i for the ranks of retrieved_ids[:k]
Relevance(retrieved_ids, relevant_set, k) ==
    Let(Prefix(retrieved_ids, k), LAMBDA retrieved_k :
        [i \in DOMAIN retrieved_k |-> IF retrieved_k[i] \in relevant_set THEN 1 ELSE 0])

\* a gain discounted by log2(i + 1) at every rank
dcg_at_k_shifted(retrieved_ids, relevant_set, k) ==
    DiscountedSum(Relevance(retrieved_ids, relevant_set, k), 1)

dcg_at_k(retrieved_ids, relevant_set, k) ==
    DiscountedSum(Relevance(retrieved_ids, relevant_set, k), 0)

\* sorted([1]*len(relevant_set) + [0]*100, reverse=True)[:k], for k <= 100
Ideal(relevant_set, k) ==
    [i \in 1..k |-> IF i <= Cardinality(relevant_set) THEN 1 ELSE 0]

ndcg_at_k(retrieved_ids, relevant_set, k) ==
    Let(DiscountedSum(Ideal(relevant_set, k), 0), LAMBDA idcg :
        IF idcg > 0
        THEN [num |-> dcg_at_k(retrieved_ids, relevant_set, k), den |-> idcg]
        ELSE [num |-> 0, den |-> 1])

\* ---------------------------------------------- calls of the pure functions
\* the evaluator's functions read no index: the store stays empty
PureInit ==
    /\ corpus = "A"
    /\ store = [a \in Artifacts |-> Missing]
    /\ tie = <<1, 2, 3>>
    /\ last = NoCall
    /\ encoders = 0

PrecisionAtK ==
    /\ Idle
    /\ \E retrieved_ids \in RetrievedLists, relevant_set \in RelevantSets, k \in Ks :
          last' = [op |-> "precision_at_k", retrieved_ids |-> retrieved_ids,
                   relevant_set |-> relevant_set, k |-> k,
                   result |-> precision_at_k(retrieved_ids, relevant_set, k)]
    /\ UNCHANGED <<corpus, store, tie, encoders>>

AveragePrecision ==
    /\ Idle
    /\ \E retrieved_ids \in RetrievedLists, relevant_set \in RelevantSets :
          last' = [op |-> "average_precision", retrieved_ids |-> retrieved_ids,
                   relevant_set |-> relevant_set,
                   result |-> average_precision(retrieved_ids, relevant_set)]
    /\ UNCHANGED <<corpus, store, tie, encoders>>

NdcgAtK ==
    /\ Idle
    /\ \E retrieved_ids \in RetrievedLists, relevant_set \in RelevantSets, k \in Ks :
          last' = [op |-> "ndcg_at_k", retrieved_ids |-> retrieved_ids,
                   relevant_set |-> relevant_set, k |-> k,
                   result |-> ndcg_at_k(retrieved_ids, relevant_set, k)]
    /\ UNCHANGED <<corpus, store, tie, encoders>>

\* rocchio_tfidf and rocchio_emb on two-column vectors; the components are
\* multiples of 60, so that the mean of up to MaxVecs + 1 rows is exact
MaxVecs == 2
QueryVecs == {<<0, 0>>, <<60, 0>>, <<60, 120>>}
DocVecs == {<<60, 0>>, <<0, 60>>}
VecLists == UNION {[1..n -> DocVecs] : n \in 0..MaxVecs}
\* alpha, beta, gamma in tenths
Coefs == {0, 8, 10}

RocchioTfidf ==
    /\ Idle
    /\ \E q \in QueryVecs, rel \in VecLists, nonrel \in VecLists,
          alpha \in Coefs, beta \in Coefs, gamma \in Coefs :
          last' = [op |-> "rocchio_tfidf", q |-> q, rel |-> rel, nonrel |-> nonrel,
                   alpha |-> alpha, beta |-> beta, gamma |-> gamma,
                   result |-> rocchio_tfidf(q, rel, nonrel, alpha, beta, gamma)]
    /\ UNCHANGED <<corpus, store, tie, encoders>>

RocchioEmb ==
    /\ Idle
    /\ \E q \in QueryVecs, rel \in VecLists, nonrel \in VecLists,
          alpha \in Coefs, beta \in Coefs, gamma \in Coefs :
          last' = [op |-> "rocchio_emb", q |-> q, rel |-> rel, nonrel |-> nonrel,
                   alpha |-> alpha, beta |-> beta, gamma |-> gamma,
                   result |-> rocchio_emb(q, rel, nonrel, alpha, beta, gamma)]
    /\ UNCHANGED <<corpus, store, tie, encoders>>

\* ------------------------------------------------------------ expand.py
\* candidate phrases and the tokenized query, as _tokenize_words joins them
Phrases == {"flow", "stress", "turbine flow"}
QueryNorms == {"flow", "drag"}

\* len(c.split())
Words(c) == IF c = "turbine flow" THEN 2 ELSE 1

\* _extract_candidate_phrases returns the keys of a Counter: a list without
\* repetition (lines 37-39), not empty past line 66
CandidateLists ==
    {c \in UNION {[1..n -> Phrases] : n \in 1..Cardinality(Phrases)} :
        \A i, j \in DOMAIN c : i # j => c[i] # c[j]}

\* combined_relevance (lines 91-95) of each phrase and sim_c_c (line 87) of
\* each pair, in tenths: what the encoder and the tf-idf scores give
RelevanceTables ==
    { [p \in Phrases |-> 5],
      [p \in Phrases |-> IF p = "flow" THEN 9 ELSE IF p = "stress" THEN 4 ELSE 8] }
SimilarityTables ==
    { [p \in Phrases, q \in Phrases |-> IF p = q THEN 10 ELSE 0],
      [p \in Phrases, q \in Phrases |->
          IF p = q THEN 10 ELSE IF "stress" \in {p, q} THEN 1 ELSE 9] }

\* k, and mmr_lambda in tenths
SuggestionCounts == 0..MaxK
MmrLambdas == {0, 7, 10}

\* int(np.argmax(combined_relevance)): the first index of the maximum
first_idx(candidates, rel) ==
    CHOOSE i \in DOMAIN candidates :
        \A j \in DOMAIN candidates :
            /\ rel[candidates[j]] <= rel[candidates[i]]
            /\ j < i => rel[candidates[j]] < rel[candidates[i]]

\* max(sim_c_c[i, j] for j in selected_idxs), selected_idxs not empty
Redundancy(candidates, sim, i, selected_idxs) ==
    CHOOSE m \in {sim[candidates[i], candidates[selected_idxs[j]]] : j \in DOMAIN selected_idxs} :
        \A j \in DOMAIN selected_idxs : sim[candidates[i], candidates[selected_idxs[j]]] <= m

\* lines 110-113, in hundredths
MmrScore(candidates, rel, sim, lam, i, selected_idxs) ==
    lam * rel[candidates[i]] - (10 - lam) * Redundancy(candidates, sim, i, selected_idxs)

\* int(np.argmax(mmr_scores)): a selected index scores -inf, so the first
\* index of the maximum is an index not yet selected while there is one,
\* and the first index of all otherwise
next_idx(candidates, rel, sim, lam, selected_idxs) ==
    IF \A i \in DOMAIN candidates : i \in Range(selected_idxs) THEN 1
    ELSE CHOOSE i \in (DOMAIN candidates) \ Range(selected_idxs) :
             \A j \in (DOMAIN candidates) \ Range(selected_idxs) :
                 /\ MmrScore(candidates, rel, sim, lam, j, selected_idxs)
                        <= MmrScore(candidates, rel, sim, lam, i, selected_idxs)
                 /\ j < i => MmrScore(candidates, rel, sim, lam, j, selected_idxs)
                                < MmrScore(candidates, rel, sim, lam, i, selected_idxs)

\* the condition of the while loop of line 103
Selecting(selected_idxs, candidates, k) ==
    Len(selected_idxs) < k /\ Len(selected_idxs) < Len(candidates)

\* lines 98-117: the first pick, then the loop; each pass appends one index,
\* so Len(candidates) passes are the most the loop can make.  `passes` is
\* the number of passes made.
MmrSelection(candidates, rel, sim, k, lam) ==
    LET run[t \in 0..Len(candidates)] ==
            IF t = 0
            THEN [selected_idxs |-> <<first_idx(candidates, rel)>>, passes |-> 0]
            ELSE Let(run[t - 1], LAMBDA r :
                     IF Selecting(r.selected_idxs, candidates, k)
                     THEN [selected_idxs |->
                              Append(r.selected_idxs,
                                     next_idx(candidates, rel, sim, lam, r.selected_idxs)),
                           passes |-> r.passes + 1]
                     ELSE r)
    IN run[Len(candidates)]

\* lines 64-119 from the candidate list on; with no candidate left after
\* line 70 cosine_similarity is handed an empty array and raises
generate_suggestions(seed_candidates, qnorm, rel, sim, k, lam) ==
    IF seed_candidates = <<>> THEN [status |-> "ok", candidates |-> <<>>, selected |-> <<>>]
    ELSE Let(SelectSeq(seed_candidates, LAMBDA c : c # qnorm /\ Words(c) <= 4),
             LAMBDA candidates :
                 IF candidates = <<>> THEN [status |-> "ValueError"]
                 ELSE Let(MmrSelection(candidates, rel, sim, k, lam), LAMBDA r :
                          [status |-> "ok", candidates |-> candidates,
                           selected |-> [j \in DOMAIN r.selected_idxs |->
                                            candidates[r.selected_idxs[j]]],
                           passes |-> r.passes,
                           exited |-> ~Selecting(r.selected_idxs, candidates, k)]))

GenerateSuggestions ==
    /\ Idle
    /\ \E seed_candidates \in CandidateLists, qnorm \in QueryNorms,
          rel \in RelevanceTables, sim \in SimilarityTables,
          k \in SuggestionCounts, lam \in MmrLambdas :
          last' = [op |-> "generate_suggestions", seed_candidates |-> seed_candidates,
                   qnorm |-> qnorm, rel |-> rel, sim |-> sim, k |-> k, mmr_lambda |-> lam]
                  @@ generate_suggestions(seed_candidates, qnorm, rel, sim, k, lam)
    /\ UNCHANGED <<corpus, store, tie, encoders>>

PureNext ==
    \/ Return
    \/ GenerateSuggestions
    \/ PrecisionAtK
    \/ AveragePrecision
    \/ NdcgAtK
    \/ RocchioTfidf
    \/ RocchioEmb

PureSpec == PureInit /\ [][PureNext]_vars


\* ---------------------------------------------------------------- claims
\* the call recorded in `last` is a call of op that returned a ranking
Ranked(op) == last.op = op /\ last.status = "ok"

\* the row indexes of a ranking, in rank order
RowsOf(rows) == [k \in DOMAIN rows |-> rows[k].row]

\* C1. hybrid_search with lambda_weight = 0 returns the documents, in the
\* order, that tfidf_search returns for the same query and topk, each fused
\* score being the lexical score; with lambda_weight = 1 it returns the
\* ranking by semantic score alone, each fused score being the semantic score.
C1_DegenerateLambda ==
    Ranked("hybrid_search") =>
        /\ last.lam = 0 =>
              \E t \in {tfidf_search(store, corpus, tie, last.query, last.topk)} :
                  /\ t.status = "ok"
                  /\ Len(t.rows) = Len(last.rows)
                  /\ \A k \in DOMAIN last.rows :
                        /\ last.rows[k].row = t.rows[k].row
                        /\ last.rows[k].id.v = t.rows[k].id.v
                        /\ last.rows[k].score = LamDen * t.rows[k].score
                        /\ last.rows[k].score = LamDen * last.rows[k].tf_score
        /\ last.lam = LamDen =>
              /\ RowsOf(last.rows) = TopIdx(last.sem_scores, last.topk, tie)
              /\ \A k \in DOMAIN last.rows :
                    last.rows[k].score = LamDen * last.rows[k].sem_score

\* a purely lexical hybrid ranking of two or more rows that the semantic
\* scores would have ordered differently
C1_Witness ==
    /\ Ranked("hybrid_search")
    /\ last.lam = 0
    /\ Len(last.rows) >= 2
    /\ RowsOf(last.rows) # TopIdx(last.sem_scores, last.topk, tie)

\* C2. In the rows hybrid_search and apply_feedback_for_query return, the
\* fused score never increases from one row to the next.
C2_ScoresNonIncreasing ==
    (Ranked("hybrid_search") \/ Ranked("apply_feedback_for_query")) =>
        \A k \in 1..(Len(last.rows) - 1) : last.rows[k].score >= last.rows[k + 1].score

\* a feedback ranking of three rows under a mixed lambda, the last row scoring
\* strictly below the first
C2_Witness ==
    /\ Ranked("apply_feedback_for_query")
    /\ last.lam > 0 /\ last.lam < LamDen
    /\ Len(last.rows) = 3
    /\ last.rows[1].score > last.rows[3].score

\* C3. Each row hybrid_search returns for the document at row index i carries
\* the lexical score, the semantic score and the fused score
\* lambda * semantic + (1 - lambda) * lexical of row i, and no document left
\* out of the result has a fused score strictly above a returned one.
C3_RowScores ==
    Ranked("hybrid_search") =>
        \E tf \in {LexicalScores[store.vec, store.mat, normalize_text(last.query)]},
           sem \in {SemanticScores[store.emb, last.query]} :
            /\ \A k \in DOMAIN last.rows :
                  /\ last.rows[k].tf_score = tf[last.rows[k].row]
                  /\ last.rows[k].sem_score = sem[last.rows[k].row]
                  /\ last.rows[k].score = last.lam * sem[last.rows[k].row]
                                          + (LamDen - last.lam) * tf[last.rows[k].row]
            /\ \A i \in (DOMAIN tf) \ Range(RowsOf(last.rows)) :
                  \A k \in DOMAIN last.rows :
                      last.lam * sem[i] + (LamDen - last.lam) * tf[i] <= last.rows[k].score

\* a hybrid ranking under a mixed lambda that leaves a document out and does
\* not start with the first row of the table
C3_Witness ==
    /\ Ranked("hybrid_search")
    /\ last.lam > 0 /\ last.lam < LamDen
    /\ Len(last.rows) < Len(Table(last.docs))
    /\ last.rows[1].row # 1

\* C4. Over a collection of N documents hybrid_search and
\* apply_feedback_for_query return exactly min(topk, N) rows, and no document
\* twice.
C4_RowCount ==
    (Ranked("hybrid_search") \/ Ranked("apply_feedback_for_query")) =>
        /\ Len(last.rows) = Min(last.topk, Len(Table(last.docs)))
        /\ \A j, k \in DOMAIN last.rows : j # k => last.rows[j].row # last.rows[k].row

\* a ranking asked for more rows than the collection has documents
C4_Witness ==
    /\ Ranked("apply_feedback_for_query")
    /\ last.topk > Len(Table(last.docs))
    /\ Len(last.rows) = Len(Table(last.docs))
    /\ Len(last.rows) >= 2

\* C5. Of two documents with equal fused scores the one with the smaller row
\* index is ranked first, and is the one kept when only one of them fits
\* within topk, in hybrid_search and in apply_feedback_for_query.
C5_TiesByRowIndex ==
    (Ranked("hybrid_search") \/ Ranked("apply_feedback_for_query")) =>
        /\ \A j, k \in DOMAIN last.rows :
              (j < k /\ last.rows[j].score = last.rows[k].score)
                  => last.rows[j].row < last.rows[k].row
        /\ \A i \in (DOMAIN last.scores) \ Range(RowsOf(last.rows)) :
              \A k \in DOMAIN last.rows :
                  last.scores[i] = last.rows[k].score => last.rows[k].row < i

\* the two document tables differ in length or in the id of some row
Disagree(docs, docs2) ==
    \/ Len(docs) # Len(docs2)
    \/ \E i \in DOMAIN docs : docs[i].id # docs2[i].id

\* C6. hybrid_search returns no ranking when the lexical and the semantic
\* document table disagree on length or on the id of some row: every such
\* call ends in the misalignment error.
C6_MisalignmentIsFatal ==
    (/\ last.op = "hybrid_search"
     /\ "docs" \in DOMAIN last
     /\ Disagree(Table(last.docs), Table(last.docs2)))
        => last.status = "AssertionError"

\* C7. apply_feedback_for_query with an empty list of relevant ids returns
\* the documents, in the order, that hybrid_search returns for the same
\* query, topk and lambda_weight.
C7_EmptyFeedbackIsSearch ==
    (Ranked("apply_feedback_for_query") /\ last.clicked = <<>>) =>
        \E h \in {hybrid_search(store, corpus, tie, last.query, last.topk, last.lam)} :
            /\ h.status = "ok"
            /\ RowsOf(h.rows) = RowsOf(last.rows)

\* C8. A feedback call meant as alpha = 1, beta = 0, gamma = 0 over a
\* non-empty set of relevant documents returns the ranking of hybrid_search
\* for the same query, topk and lambda_weight.  The call has no parameter
\* for the coefficients, so every call is such a call; the queries are those
\* normalize_text leaves as they are, for which search and feedback
\* vectorize the same words.
C8_NeutralCoefficients ==
    (/\ Ranked("apply_feedback_for_query")
     /\ last.rel_idxs # <<>>
     /\ normalize_text(last.query) = last.query) =>
        \E h \in {hybrid_search(store, corpus, tie, last.query, last.topk, last.lam)} :
            /\ h.status = "ok"
            /\ RowsOf(h.rows) = RowsOf(last.rows)

\* the ids of a list that name a row of the document table
KnownIds(docs, clicked_doc_ids) ==
    SelectSeq(clicked_doc_ids, LAMBDA did : \E i \in DOMAIN docs : docs[i].id = did)

\* what a finished call reports, without the arguments it was given
Reported(call) ==
    [f \in (DOMAIN call) \ {"op", "query", "clicked", "topk", "lam"} |-> call[f]]

\* C9. Ids of relevant_doc_ids that name no row of the document table are
\* skipped without an error: a feedback call that got its indexes returns
\* what the same call returns with those ids left out of the list.
C9_UnknownIdsSkipped ==
    [][(last'.op = "apply_feedback_for_query" /\ "docs" \in DOMAIN last') =>
          \E r \in {apply_feedback_for_query(
                        store, corpus, tie, last'.query,
                        KnownIds(Table(last'.docs), last'.clicked),
                        last'.topk, last'.lam)} :
              /\ r.st = store'
              /\ Outcome(r) = Reported(last')]_vars

\* a feedback ranking from a list that holds an id of the table and an id
\* that names no row
C9_Witness ==
    /\ Ranked("apply_feedback_for_query")
    /\ last.rel_idxs # <<>>
    /\ \E j \in DOMAIN last.clicked :
          \A i \in DOMAIN Table(last.docs) : Table(last.docs)[i].id # last.clicked[j]

\* C10. load_index returns the three lexical artifacts as stored when all
\* three are stored; when any one is missing it returns, and stores, the
\* three that build_index makes of the current collection, none of them
\* read from storage, and it does not fail for the missing artifact.
C10_LoadAllOrRebuildAll ==
    [][last'.op = "load_index" =>
          IF store.vec # Missing /\ store.mat # Missing /\ store.docs # Missing
          THEN /\ last'.status = "ok"
               /\ store' = store
               /\ last'.vectorizer = store.vec
               /\ last'.X = store.mat
               /\ last'.docs = Csv(store.docs)
          ELSE /\ last'.status # "FileNotFoundError"
               /\ \E b \in {build_index(store, corpus)} :
                     /\ store' = b.st
                     /\ last'.status = Status(b)
                     /\ b.ok => /\ last'.vectorizer = corpus
                                /\ last'.X = corpus
                                /\ last'.docs = Frame(corpus)
                                /\ store'.vec = corpus
                                /\ store'.mat = corpus
                                /\ store'.docs = corpus]_vars

\* load_index has rebuilt the three artifacts from the current collection
\* while storage still holds the embeddings of another one
C10_Witness ==
    /\ last.op = "load_index"
    /\ last.status = "ok"
    /\ last.docs = Frame(corpus)
    /\ store.emb \notin {Missing, corpus}

\* C11. A ranking request made while some persisted artifact is missing, over
\* a collection that can be indexed, completes with a ranking and leaves all
\* four artifacts in storage, for hybrid_search and apply_feedback_for_query.
C11_MissingArtifactRebuilt ==
    [][(/\ last'.op \in {"hybrid_search", "apply_feedback_for_query"}
        /\ \E a \in Artifacts : store[a] = Missing
        /\ corpus \in Built) =>
          /\ last'.status = "ok"
          /\ \A a \in Artifacts : store'[a] # Missing]_vars

\* C12. When storage holds what build_index makes of the current collection,
\* load_index returns the document matrix build_index returns and a document
\* table equal to build_index's row for row, each id with the same value and
\* the same (string) type.
C12_LoadReturnsWhatBuildReturned ==
    \A b \in {build_index(store, corpus)} :
        (/\ last.op = "load_index"
         /\ last.module = "indexer"
         /\ last.status = "ok"
         /\ b.ok
         /\ b.st = store) =>
            /\ TfidfMatrix[last.X] = TfidfMatrix[b.X]
            /\ Len(Table(last.docs)) = Len(Table(b.docs))
            /\ \A i \in DOMAIN Table(b.docs) : Table(last.docs)[i] = Table(b.docs)[i]

\* C13. A matrix that load_semantic_index or load_index returns has as many
\* rows as the document table returned with it.
C13_LoadedRowsMatchTable ==
    /\ (last.op = "load_semantic_index" /\ last.status = "ok") =>
           Len(Embeddings[last.emb_matrix]) = Len(Table(last.docs))
    /\ (last.op = "load_index" /\ last.status = "ok") =>
           Len(TfidfMatrix[last.X]) = Len(Table(last.docs))

\* normalize_text leaves no token of any document of the collection
NoSurvivingToken(c) == \A i \in DOMAIN DocsFrame[c] : DocsFrame[c][i].text_norm = <<>>

\* C14. Over a collection in which no document keeps a token after
\* normalization, a collection without documents included, build_index ends
\* in an error its caller receives and leaves every persisted artifact as it
\* was.
C14_EmptyCorpusBuildFails ==
    [][(last'.op = "build_index" /\ NoSurvivingToken(corpus)) =>
          /\ last'.status \in {"ValueError", "IndexError"}
          /\ store' = store]_vars

\* build_index has failed on an empty vocabulary while storage holds the
\* index of an earlier collection
C14_Witness ==
    /\ last.op = "build_index"
    /\ last.status = "ValueError"
    /\ NoSurvivingToken(corpus)
    /\ store.vec # Missing /\ store.mat # Missing /\ store.docs # Missing

\* the ranks among the first k at which retrieved_ids holds a relevant id
HitRanks(retrieved_ids, relevant_set, k) ==
    {i \in 1..k : i <= Len(retrieved_ids) /\ retrieved_ids[i] \in relevant_set}

\* C15. precision_at_k is the number of relevant ids among the first k
\* retrieved divided by k, also for a list of fewer than k ids; it lies in
\* [0,1], is 1 when each of the first k ranks holds a relevant id and 0 when
\* none of them does.
C15_PrecisionAtK ==
    last.op = "precision_at_k" =>
        \E hits \in {Cardinality(HitRanks(last.retrieved_ids, last.relevant_set, last.k))} :
            /\ last.result.den > 0
            /\ last.result.num * last.k = hits * last.result.den
            /\ 0 <= last.result.num /\ last.result.num <= last.result.den
            /\ hits = last.k => last.result.num = last.result.den
            /\ hits = 0 => last.result.num = 0

\* a list shorter than k, every id of it relevant: the precision is below 1
C15_Witness ==
    /\ last.op = "precision_at_k"
    /\ Len(last.retrieved_ids) = 2
    /\ last.k = 3
    /\ \A i \in DOMAIN last.retrieved_ids : last.retrieved_ids[i] \in last.relevant_set
    /\ last.result = [num |-> 2, den |-> 3]

\* the sum over the ranks i of the list that hold a relevant id of
\* (number of relevant ids in ranks 1..i) / i, in units of 1/den
SumOfPrecisions(retrieved_ids, relevant_set, den) ==
    LET n == Len(retrieved_ids)
        term(i) == Cardinality(HitRanks(retrieved_ids, relevant_set, i)) * (den \div i)
        acc[i \in 0..n] ==
            IF i = 0 THEN 0
            ELSE acc[i - 1] + (IF retrieved_ids[i] \in relevant_set THEN term(i) ELSE 0)
    IN acc[n]

\* C16. average_precision is the sum, over the ranks i of the whole list
\* that hold a relevant id, of (relevant ids in ranks 1..i) / i, divided by
\* the size of relevant_set, and 0 when the list holds no relevant id; for
\* relevant_set {1,3} and the list [2,1,3] it is (1/2 + 2/3)/2 = 7/12, and
\* precision_at_k with k = 3 is 2/3.
C16_AveragePrecision ==
    /\ last.op = "average_precision" =>
          \E den \in {Factorial(Len(last.retrieved_ids))} :
              /\ last.result.den > 0
              /\ last.result.num * den * Cardinality(last.relevant_set)
                     = SumOfPrecisions(last.retrieved_ids, last.relevant_set, den)
                       * last.result.den
              /\ HitRanks(last.retrieved_ids, last.relevant_set, Len(last.retrieved_ids)) = {}
                     => last.result.num = 0
    /\ (/\ last.op \in {"average_precision", "precision_at_k"}
        /\ last.retrieved_ids = <<"2", "1", "3">>
        /\ last.relevant_set = {"1", "3"}) =>
          IF last.op = "average_precision"
          THEN last.result.num * 12 = 7 * last.result.den
          ELSE last.k = 3 => last.result.num * 3 = 2 * last.result.den

\* the example of the claim: the list [2,1,3] against {1,3}
C16_Witness ==
    /\ last.op = "average_precision"
    /\ last.retrieved_ids = <<"2", "1", "3">>
    /\ last.relevant_set = {"1", "3"}
    /\ last.result.num * 12 = 7 * last.result.den

\* every id of relevant_set is in the list, and no relevant id comes after a
\* non-relevant one
RelevantFirst(retrieved_ids, relevant_set) ==
    /\ relevant_set \subseteq Range(retrieved_ids)
    /\ \A i, j \in DOMAIN retrieved_ids :
          (i < j /\ retrieved_ids[j] \in relevant_set) => retrieved_ids[i] \in relevant_set

\* C17. For 1 <= k <= |relevant_set|, ndcg_at_k is exactly 1 for every list
\* that holds all relevant ids ahead of every non-relevant id; it is 0 when
\* the ideal DCG is 0, that is when relevant_set is empty.
C17_NdcgOfPerfectOrder ==
    last.op = "ndcg_at_k" =>
        /\ last.result.den > 0
        /\ (/\ last.k <= Cardinality(last.relevant_set)
            /\ RelevantFirst(last.retrieved_ids, last.relevant_set))
               => last.result.num = last.result.den
        /\ last.relevant_set = {} => last.result.num = 0

\* two relevant ids ahead of a non-relevant one, k = 2
C17_Witness ==
    /\ last.op = "ndcg_at_k"
    /\ last.k = 2
    /\ Cardinality(last.relevant_set) = 2
    /\ Len(last.retrieved_ids) = 3
    /\ last.retrieved_ids[3] \notin last.relevant_set
    /\ RelevantFirst(last.retrieved_ids, last.relevant_set)
    /\ last.result.num = last.result.den

\* the ids of a document table, row by row, as written in docs.csv
IdValues(docs) == [i \in DOMAIN docs |-> docs[i].id.v]

\* C18. apply_feedback_for_query returns no ranking when the lexical index
\* and the semantic index it has loaded disagree in row count or in the id
\* of some row: the document table of the lexical index against the table
\* whose rows the stored embedding matrix was computed from.
C18_FeedbackHaltsOnMisalignment ==
    (/\ last.op = "apply_feedback_for_query"
     /\ "docs" \in DOMAIN last
     /\ IdValues(Table(last.docs)) # IdValues(DocsCsv[store.emb]))
        => last.status # "ok"

\* the sum of column k over the rows vecs
ColumnSum(vecs, k) ==
    LET acc[j \in 0..Len(vecs)] == IF j = 0 THEN 0 ELSE acc[j - 1] + vecs[j][k]
    IN acc[Len(vecs)]

\* the divisor of a mean, 1 for an empty (or None) argument, whose term is
\* left out
Divisor(vecs) == IF Len(vecs) = 0 THEN 1 ELSE Len(vecs)

\* alpha*q + beta*mean(rel) - gamma*mean(nonrel) at column k for the call
\* c, multiplied by both divisors
Combination(c, k) ==
    Divisor(c.rel) * Divisor(c.nonrel) * c.alpha * c.q[k]
    + Divisor(c.nonrel) * c.beta * ColumnSum(c.rel, k)
    - Divisor(c.rel) * c.gamma * ColumnSum(c.nonrel, k)

Abs(x) == IF x < 0 THEN -x ELSE x

\* C19. rocchio_tfidf returns exactly alpha*q + beta*mean(rel) -
\* gamma*mean(nonrel), not normalized, an empty set contributing nothing;
\* rocchio_emb returns the same combination divided by its norm: the zero
\* vector when the combination is zero, and otherwise a vector of length one
\* (within 2 fixed-point units) along the combination, up to the rounding of
\* its two components.
C19_RocchioFormula ==
    /\ last.op = "rocchio_tfidf" =>
          /\ DOMAIN last.result = DOMAIN last.q
          /\ \A k \in DOMAIN last.q :
                Divisor(last.rel) * Divisor(last.nonrel) * last.result[k]
                    = Combination(last, k)
    /\ last.op = "rocchio_emb" =>
          /\ DOMAIN last.result = DOMAIN last.q
          /\ IF \A k \in DOMAIN last.q : Combination(last, k) = 0
             THEN \A k \in DOMAIN last.q : last.result[k] = 0
             ELSE /\ Dot(last.result, last.result) >= (Unit - 2) * (Unit - 2)
                  /\ Dot(last.result, last.result) <= (Unit + 2) * (Unit + 2)
                  /\ \A k \in DOMAIN last.q : last.result[k] * Combination(last, k) >= 0
                  /\ Abs(last.result[1] * Combination(last, 2)
                         - last.result[2] * Combination(last, 1))
                        <= Abs(Combination(last, 1)) + Abs(Combination(last, 2))

\* rocchio_emb called with relevant and non-relevant rows and non-zero
\* coefficients, returning a vector with a negative component
C19_Witness ==
    /\ last.op = "rocchio_emb"
    /\ last.rel # <<>> /\ last.nonrel # <<>>
    /\ last.rel # last.nonrel
    /\ last.beta > 0 /\ last.gamma > 0 /\ last.alpha > 0
    /\ last.result # last.q
    /\ \E k \in DOMAIN last.q : last.result[k] < 0

\* the fused score of row i from the score arrays tf and sem
FusedAt(lam, sem, tf, i) == lam * sem[i] + (LamDen - lam) * tf[i]

\* C20. apply_feedback_for_query scores every one of the N documents with
\* the updated query and returns the top min(topk, N) of all N fused scores:
\* the score arrays have one entry per row of the table, each returned row
\* carries the fused score of its row, no row left out (a relevant one and
\* one that search would not return included) scores above a returned row,
\* and with topk >= N every row is returned.
C20_FeedbackRanksAllDocuments ==
    Ranked("apply_feedback_for_query") =>
        \E tf \in {FeedbackLexicalScores[store.vec, store.mat, last.query, last.rel_idxs]},
           sem \in {FeedbackSemanticScores[store.emb, last.query, last.rel_idxs]},
           N \in {Len(Table(last.docs))} :
            /\ DOMAIN tf = 1..N /\ DOMAIN sem = 1..N /\ DOMAIN last.scores = 1..N
            /\ \A i \in 1..N : last.scores[i] = FusedAt(last.lam, sem, tf, i)
            /\ Cardinality(Range(RowsOf(last.rows))) = Min(last.topk, N)
            /\ Range(RowsOf(last.rows)) \subseteq 1..N
            /\ \A k \in DOMAIN last.rows :
                  last.rows[k].score = FusedAt(last.lam, sem, tf, last.rows[k].row)
            /\ \A i \in (1..N) \ Range(RowsOf(last.rows)) :
                  \A k \in DOMAIN last.rows :
                      FusedAt(last.lam, sem, tf, i) <= last.rows[k].score
            /\ last.topk >= N => Range(RowsOf(last.rows)) = 1..N

\* a feedback ranking shorter than the collection that returns a clicked
\* document and a document that hybrid_search, asked the same, leaves out
C20_Witness ==
    /\ Ranked("apply_feedback_for_query")
    /\ Len(last.rows) < Len(Table(last.docs))
    /\ \E k \in DOMAIN last.rows : last.rows[k].row \in Range(last.rel_idxs)
    /\ \E h \in {hybrid_search(store, corpus, tie, last.query, last.topk, last.lam)} :
          /\ h.status = "ok"
          /\ \E k \in DOMAIN last.rows :
                last.rows[k].row \notin Range(RowsOf(h.rows))

\* the lexical query vector of normalize_text(query) under the stored
\* vectorizer, and whether none of its terms is in the vocabulary
NormalizedQueryVector(query) == Transform(Vectorizer[store.vec], normalize_text(query))

OutOfVocabulary(query) ==
    \A g \in Range(Analyze(normalize_text(query))) :
        g \notin Range(Vectorizer[store.vec].vocabulary)

\* C21. In tfidf_search, hybrid_search and apply_feedback_for_query the
\* lexical scores are those of the query vector the fitted vectorizer gives
\* for normalize_text(query) (in feedback: of that vector after the Rocchio
\* update with the rows the call resolved), and a query with no normalized
\* term in the vocabulary that is ranked gets lexical score 0 on every row.
C21_QueryVectorOfNormalizedText ==
    /\ Ranked("tfidf_search") =>
          \A k \in DOMAIN last.rows :
              last.rows[k].score =
                  LexicalScores[store.vec, store.mat, normalize_text(last.query)][last.rows[k].row]
    /\ Ranked("hybrid_search") =>
          last.tf_scores = LexicalScores[store.vec, store.mat, normalize_text(last.query)]
    /\ Ranked("apply_feedback_for_query") =>
          last.tf_scores =
              cosine_similarity(
                  rocchio_tfidf(NormalizedQueryVector(last.query),
                                Rows(TfidfMatrix[store.mat], last.rel_idxs), <<>>,
                                ALPHA, BETA, GAMMA),
                  TfidfMatrix[store.mat])
    /\ (Ranked("hybrid_search") /\ OutOfVocabulary(last.query)) =>
          \A i \in DOMAIN last.tf_scores : last.tf_scores[i] = 0
    /\ (Ranked("apply_feedback_for_query") /\ OutOfVocabulary(last.query)
        /\ last.rel_idxs = <<>>) =>
          \A i \in DOMAIN last.tf_scores : last.tf_scores[i] = 0

\* the text build_semantic_index encodes for row i of a document table
RowText(docs, i) == docs[i].title \o <<".">> \o docs[i].text

\* C22. A build_semantic_index call runs build_index first when docs.csv is
\* absent (and fails as it fails, writing nothing more), and when it
\* completes the stored embedding matrix has one row per row of the stored
\* document table, row i being the embedding of the table's row i.
C22_EmbeddingsFollowTable ==
    [][last'.op = "build_semantic_index" =>
          /\ store.docs = Missing =>
                \E b \in {build_index(store, corpus)} :
                    /\ ~b.ok => (last'.status = b.err /\ store' = b.st)
                    /\ b.ok => /\ last'.status = "ok"
                               /\ store'.vec = b.st.vec
                               /\ store'.mat = b.st.mat
                               /\ store'.docs = b.st.docs
          /\ store.docs # Missing =>
                /\ last'.status = "ok"
                /\ store'.vec = store.vec /\ store'.mat = store.mat
                /\ store'.docs = store.docs
          /\ last'.status = "ok" =>
                /\ store'.emb # Missing /\ store'.docs # Missing
                /\ last'.emb_matrix = store'.emb
                /\ Len(Embeddings[store'.emb]) = Len(DocsCsv[store'.docs])
                /\ \A i \in DOMAIN DocsCsv[store'.docs] :
                      Embeddings[store'.emb][i] = Encode(RowText(DocsCsv[store'.docs], i))]_vars

\* a completed semantic build over a stored table that is not the collection
\* now on disk, the lexical matrix having been removed
C22_Witness ==
    /\ last.op = "build_semantic_index"
    /\ last.status = "ok"
    /\ store.docs \notin {Missing, corpus}
    /\ corpus \in Built
    /\ store.mat = Missing
    /\ store.emb = store.docs

\* C23. Over the hybrid_search and apply_feedback_for_query calls of one
\* process the sentence encoder is constructed at most once: a call made
\* after one that loaded it constructs no further instance.
C23_EncoderLoadedOnce == encoders <= 1

\* C24. A hybrid_search or apply_feedback_for_query call made when the four
\* artifacts exist leaves each of them as it was, also when a load raises
\* something other than a missing file.
C24_ArtifactsOnlyRead ==
    [][(/\ last'.op \in {"hybrid_search", "apply_feedback_for_query"}
        /\ \A a \in Artifacts : store[a] # Missing) =>
            store' = store]_vars

\* C25. In a feedback call that returns a ranking, every clicked id given as
\* a string that is the id of a row of the document table is resolved: the
\* row holding that id is among rel_idxs, whether the table was built in the
\* call or read from docs.csv.
C25_StringIdsResolved ==
    Ranked("apply_feedback_for_query") =>
        \A j \in DOMAIN last.clicked :
            (/\ last.clicked[j].t = "str"
             /\ \E i \in DOMAIN Table(last.docs) :
                   Table(last.docs)[i].id.v = last.clicked[j].v) =>
                \E k \in DOMAIN last.rel_idxs :
                    Table(last.docs)[last.rel_idxs[k]].id.v = last.clicked[j].v

\* C26. After build_index runs that complete or stop between their writes,
\* the vectorizer, the matrix and the document table load_index returns are
\* those of one build run: all three made from the same collection.
C26_LoadedTripleOfOneBuild ==
    (last.op = "load_index" /\ last.status = "ok") =>
        /\ last.vectorizer = last.X
        /\ last.X = last.docs.of

\* C27. A generate_suggestions call that reaches the MMR selection leaves
\* the loop and returns min(k, number of candidates) phrases, k >= 0, all
\* of them candidates, no two equal, none the tokenized query.
C27_MmrSelection ==
    (last.op = "generate_suggestions" /\ last.status = "ok") =>
        /\ last.exited
        /\ Len(last.selected) = Min(last.k, Len(last.candidates))
        /\ \A i \in DOMAIN last.selected :
              /\ last.selected[i] \in Range(last.candidates)
              /\ last.selected[i] # last.qnorm
        /\ \A i, j \in DOMAIN last.selected : i # j => last.selected[i] # last.selected[j]

=============================================================================
